---------------------------- MODULE Spec2Model ----------------------------
(***************************************************************************)
(* Model of the image-service request pipeline of picsum-photos:           *)
(*   - API.imageHandler (internal/imageapi/image.go): HMAC and parameter   *)
(*     validation, the expirable LRU result cache, and request coalescing  *)
(*     over the in-flight sync.Map;                                        *)
(*   - queue.Queue (package queue): New, Run, worker and Process.          *)
(* Strings are sequences of one-character strings, so that formatting is   *)
(* modelled by what it produces.                                           *)
(***************************************************************************)
EXTENDS Integers, Sequences, FiniteSets, TLC

(***************************************************************************)
(* Bounds of the model.                                                    *)
(***************************************************************************)
NReq == 3
MaxEvict == 1
NWorkers == 1
NCallers == 6
MaxCancel == 2
NFailing == 1
MaxSending == 1

(***************************************************************************)
(* Program constants.                                                      *)
(***************************************************************************)
QueueFactor == 4
ResultCap == 1

(***************************************************************************)
(* Strings and formatting (fmt.Sprintf with %s and %d).                    *)
(***************************************************************************)
Digits == <<"0", "1", "2", "3", "4", "5", "6", "7", "8", "9">>

RECURSIVE Itoa(_)
Itoa(n) == IF n < 10 THEN <<Digits[n + 1]>>
           ELSE Itoa(n \div 10) \o <<Digits[(n % 10) + 1]>>

ExtJpg == <<".", "j", "p", "g">>
ExtWebp == <<".", "w", "e", "b", "p">>
StrBlur == <<"-", "b", "l", "u", "r", "_">>
StrGrayscale == <<"-", "g", "r", "a", "y", "s", "c", "a", "l", "e">>
StrCaption == <<"P", "i", "c", "s", "u", "m", " ", "I", "D", ":", " ">>

(***************************************************************************)
(* params.Params together with the image id of the path.                   *)
(***************************************************************************)
MkParams(id, w, h, ext, blur, amount, gray) ==
    [id |-> id, Width |-> w, Height |-> h, Extension |-> ext,
     Blur |-> blur, BlurAmount |-> amount, Grayscale |-> gray]

NoParams == MkParams(<<>>, 0, 0, <<>>, FALSE, 0, FALSE)

\* The parameter vectors the modelled clients ask for.
ParamSet ==
    { MkParams(<<"7">>, 20, 20, ExtWebp, TRUE, 3, FALSE),
      MkParams(<<"7">>, 20, 20, ExtWebp, TRUE, 5, FALSE) }

\* A fingerprint that leaves the blur amount out.
buildCacheKeyNoAmount(p) ==
    LET key == p.id \o <<"-">> \o Itoa(p.Width) \o <<"x">> \o Itoa(p.Height)
                 \o p.Extension
        keyB == IF p.Blur THEN key \o StrBlur ELSE key
    IN  IF p.Grayscale THEN keyB \o StrGrayscale ELSE keyB

buildCacheKey(p) ==
    LET key == p.id \o <<"-">> \o Itoa(p.Width) \o <<"x">> \o Itoa(p.Height)
                 \o p.Extension
        keyB == IF p.Blur THEN key \o StrBlur \o Itoa(p.BlurAmount) ELSE key
    IN  IF p.Grayscale THEN keyB \o StrGrayscale ELSE keyB

\* A file name that forgets the extension.
buildFilenameNoExtension(p) ==
    LET filename == p.id \o <<"-">> \o Itoa(p.Width) \o <<"x">>
                      \o Itoa(p.Height)
        nameB == IF p.Blur THEN filename \o StrBlur \o Itoa(p.BlurAmount)
                 ELSE filename
    IN  IF p.Grayscale THEN nameB \o StrGrayscale ELSE nameB

buildFilename(p) ==
    LET filename == p.id \o <<"-">> \o Itoa(p.Width) \o <<"x">>
                      \o Itoa(p.Height)
        nameB == IF p.Blur THEN filename \o StrBlur \o Itoa(p.BlurAmount)
                 ELSE filename
        nameG == IF p.Grayscale THEN nameB \o StrGrayscale ELSE nameB
    IN  nameG \o p.Extension

\* The valid parameter vectors the formatting is applied to: ids with and
\* without the separators of the format, small and largest dimensions, both
\* extensions, the smallest and largest blur amounts, and the amounts a
\* vector can carry when blur is not set.
Ids == { <<"7">>, <<"7", "1">>, <<"7", "-", "1", "x", "1">> }
Widths == {1, 11, 5000}
Heights == {1, 11}
Extensions == {ExtJpg, ExtWebp}
BlurAmounts == {1, 10}
UnsetAmounts == {0, 10}

ValidParams ==
    { MkParams(id, w, h, ext, TRUE, n, g) :
        id \in Ids, w \in Widths, h \in Heights, ext \in Extensions,
        n \in BlurAmounts, g \in BOOLEAN }
    \cup
    { MkParams(id, w, h, ext, FALSE, n, g) :
        id \in Ids, w \in Widths, h \in Heights, ext \in Extensions,
        n \in UnsetAmounts, g \in BOOLEAN }

getOutputFormat(extension) ==
    IF extension = ExtWebp THEN "WebP" ELSE "JPEG"

\* image.NewTask followed by the optional task.Blur and task.Grayscale.
BuildTask(p) ==
    [imageID |-> p.id, width |-> p.Width, height |-> p.Height,
     comment |-> StrCaption \o p.id,
     format |-> getOutputFormat(p.Extension),
     blur |-> p.Blur, blurAmount |-> IF p.Blur THEN p.BlurAmount ELSE 0,
     grayscale |-> p.Grayscale]

\* The bytes a successful ProcessImage call returns for a task
\* (deterministic encoding), and the nil slice of a failed call.
Render(task) == [img |-> task]
NilBytes == [nil |-> TRUE]

Keys == {buildCacheKey(p) : p \in ParamSet}

(***************************************************************************)
(* State.                                                                  *)
(***************************************************************************)
VARIABLES
    \* API (imageapi)
    imageCache,         \* result cache: fingerprint -> bytes (present keys)
    inflight,           \* in-flight map: fingerprint -> completion signal
    closed,             \* the completion signals that have been closed
    cacheHits, cacheMisses, requestsCoalesced, requestsProcessed,
    queueFullErrors,    \* the expvar counters
    \* one imageHandler execution per request
    pc, params, cacheKey, loaded, existing, cancelled,
    processedImage, err, status, body,
    \* history
    input, hit, invoked, evictions,
    \* Queue (package queue)
    qctxDone,           \* q.ctx (the parent context) is cancelled
    runpc, spawned,     \* Queue.Run: its position and loop counter i
    queue,              \* q.queue: buffered jobs (each the caller's id)
    qclosed,            \* q.queue has been closed
    wpc, wjob, wres,    \* worker: position, current job, value to send
    cpc, cctx, resultChan, ret, enqueued,   \* Process call per caller
    handled, afterShutdown, \* history of each Process call
    \* the formatting applied to two parameter vectors
    fpc, vecA, vecB, keyA, keyB, filename,
    \* the middleware around imageHandler, per request
    clientGone,         \* the client went away: the request's own context
                        \* (the one Logger reads) is cancelled
    written,            \* the status code that reached the client's writer
    logged,             \* the severity of the request's log line
    goneWaiting,        \* history: the client went away while the request
                        \* was blocked on a signal that had not fired
    \* Logger's choice of severity applied to one (status, error) pair
    lpc, respCode, reqCtxErr, severity

hvars == <<imageCache, inflight, closed, cacheHits, cacheMisses,
           requestsCoalesced, requestsProcessed, queueFullErrors,
           pc, params, cacheKey, loaded, existing, cancelled,
           processedImage, err, status, body, input, hit, invoked,
           evictions>>

qvars == <<qctxDone, runpc, spawned, queue, qclosed, wpc, wjob, wres,
           cpc, cctx, resultChan, ret, enqueued, handled, afterShutdown>>

fvars == <<fpc, vecA, vecB, keyA, keyB, filename>>

mvars == <<clientGone, written, logged, goneWaiting>>

lvars == <<lpc, respCode, reqCtxErr, severity>>

vars == <<hvars, qvars, fvars, mvars, lvars, lvars>>

Req == 1..NReq
Workers == 1..NWorkers
Callers == 1..NCallers
NoSignal == 0

InitH ==
    /\ imageCache = <<>>
    /\ inflight = <<>>
    /\ closed = {}
    /\ cacheHits = 0 /\ cacheMisses = 0 /\ requestsCoalesced = 0
    /\ requestsProcessed = 0 /\ queueFullErrors = 0
    /\ pc = [r \in Req |-> "idle"]
    /\ params = [r \in Req |-> NoParams]
    /\ cacheKey = [r \in Req |-> <<>>]
    /\ loaded = [r \in Req |-> FALSE]
    /\ existing = [r \in Req |-> NoSignal]
    /\ cancelled = [r \in Req |-> FALSE]
    /\ processedImage = [r \in Req |-> NilBytes]
    /\ err = [r \in Req |-> "unset"]
    /\ status = [r \in Req |-> 0]
    /\ body = [r \in Req |-> NilBytes]
    /\ input = [r \in Req |-> [hmac |-> "unset", parse |-> "unset"]]
    /\ hit = [r \in Req |-> FALSE]
    /\ invoked = [r \in Req |-> FALSE]
    /\ evictions = 0

InitQ ==
    /\ qctxDone = FALSE
    /\ runpc = "spawn" /\ spawned = 0
    /\ queue = <<>>
    /\ qclosed = FALSE
    /\ wpc = [w \in Workers |-> "unstarted"]
    /\ wjob = [w \in Workers |-> 0]
    /\ wres = [w \in Workers |-> "unset"]
    /\ cpc = [c \in Callers |-> "idle"]
    /\ cctx = [c \in Callers |-> FALSE]
    /\ resultChan = [c \in Callers |-> <<>>]
    /\ ret = [c \in Callers |-> "unset"]
    /\ enqueued = [c \in Callers |-> FALSE]
    /\ handled = [c \in Callers |-> 0]
    /\ afterShutdown = [c \in Callers |-> FALSE]

\* No formatting is in progress.
InitF ==
    /\ fpc = "off"
    /\ vecA = NoParams /\ vecB = NoParams
    /\ keyA = <<>> /\ keyB = <<>> /\ filename = <<>>

InitM ==
    /\ clientGone = [r \in Req |-> FALSE]
    /\ written = [r \in Req |-> 0]
    /\ logged = [r \in Req |-> "none"]
    /\ goneWaiting = [r \in Req |-> FALSE]

\* No log line is being written.
InitL ==
    /\ lpc = "off"
    /\ respCode = 0 /\ reqCtxErr = "nil" /\ severity = "none"

Init == InitH /\ InitQ /\ InitF /\ InitM /\ InitL

(***************************************************************************)
(* Maps with a set of present keys (sync.Map, the LRU).                    *)
(***************************************************************************)
Has(m, k) == k \in DOMAIN m
Put(m, k, v) == [x \in DOMAIN m \cup {k} |-> IF x = k THEN v ELSE m[x]]
Del(m, k) == [x \in DOMAIN m \ {k} |-> m[x]]

\* A cache that never finds anything.
GetNothing(cache, k) == [ok |-> FALSE, value |-> NilBytes]

\* expirable.LRU.Get(key): (value, ok).
Get(cache, k) ==
    IF Has(cache, k) THEN [ok |-> TRUE, value |-> cache[k]]
    ELSE [ok |-> FALSE, value |-> NilBytes]

\* A plain Store: the value is written whether or not the key is present.
StoreAlways(m, k, v) == [map |-> Put(m, k, v), actual |-> v, loaded |-> FALSE]

\* sync.Map.LoadOrStore(key, value): (actual, loaded), and the map afterwards.
LoadOrStore(m, k, v) ==
    IF Has(m, k) THEN [map |-> m, actual |-> m[k], loaded |-> TRUE]
    ELSE [map |-> Put(m, k, v), actual |-> v, loaded |-> FALSE]


(***************************************************************************)
(* API.imageHandler, one action per step between accesses to shared state. *)
(***************************************************************************)
counters == <<cacheHits, cacheMisses, requestsCoalesced, requestsProcessed,
              queueFullErrors>>

\* A validation that lets an invalid signature through.
ValidationSkipsInvalid(hm, pe) ==
    IF hm = "error" THEN 500
    ELSE IF hm = "valid" /\ pe = "error" THEN 400
    ELSE 0

\* The status imageHandler returns from its validation, 0 when it goes on.
\* hm is the outcome of params.ValidateHMAC ("error", "invalid", "valid"),
\* pe that of params.GetParams ("error", "ok").
ValidationCode(hm, pe) ==
    IF hm = "error" THEN 500
    ELSE IF hm = "invalid" THEN 400
    ELSE IF pe = "error" THEN 400
    ELSE 0

Respond(r, code, bytes) ==
    /\ pc' = [pc EXCEPT ![r] = "done"]
    /\ status' = [status EXCEPT ![r] = code]
    /\ body' = [body EXCEPT ![r] = bytes]

\* Lines 28-48: validation, then the cache key.
HandlerEntry(r, p, hm, pe) ==
    /\ pc[r] = "idle"
    /\ input' = [input EXCEPT ![r] = [hmac |-> hm, parse |-> pe]]
    /\ IF ValidationCode(hm, pe) # 0
       THEN /\ Respond(r, ValidationCode(hm, pe), NilBytes)
            /\ UNCHANGED <<params, cacheKey>>
       ELSE /\ params' = [params EXCEPT ![r] = p]
            /\ cacheKey' = [cacheKey EXCEPT ![r] = buildCacheKey(p)]
            /\ pc' = [pc EXCEPT ![r] = "lookup"]
            /\ UNCHANGED <<status, body>>
    /\ UNCHANGED <<qvars, fvars, mvars, lvars, imageCache, inflight, closed, counters, loaded, existing,
                   cancelled, processedImage, err, hit, invoked, evictions>>

\* Lines 55-59: the first look at the LRU cache.
CacheLookup(r) ==
    /\ pc[r] = "lookup"
    /\ IF Get(imageCache, cacheKey[r]).ok
       THEN /\ cacheHits' = cacheHits + 1
            /\ hit' = [hit EXCEPT ![r] = TRUE]
            /\ Respond(r, 200, Get(imageCache, cacheKey[r]).value)
            /\ UNCHANGED cacheMisses
       ELSE /\ cacheMisses' = cacheMisses + 1
            /\ pc' = [pc EXCEPT ![r] = "claim"]
            /\ UNCHANGED <<cacheHits, hit, status, body>>
    /\ UNCHANGED <<qvars, fvars, mvars, lvars, imageCache, inflight, closed, requestsCoalesced,
                   requestsProcessed, queueFullErrors, params, cacheKey,
                   loaded, existing, cancelled, processedImage, err, input,
                   invoked, evictions>>

\* Lines 63-69: done := make(chan struct{}) is the signal named r.
Claim(r) ==
    /\ pc[r] = "claim"
    /\ loaded' = [loaded EXCEPT ![r] =
                      LoadOrStore(inflight, cacheKey[r], r).loaded]
    /\ inflight' = LoadOrStore(inflight, cacheKey[r], r).map
    /\ existing' = [existing EXCEPT ![r] =
                        LoadOrStore(inflight, cacheKey[r], r).actual]
    /\ IF loaded'[r]
       THEN /\ requestsCoalesced' = requestsCoalesced + 1
            /\ pc' = [pc EXCEPT ![r] = "wait"]
       ELSE /\ pc' = [pc EXCEPT ![r] = "produce"]
            /\ UNCHANGED requestsCoalesced
    /\ UNCHANGED <<qvars, fvars, mvars, lvars, imageCache, closed, cacheHits, cacheMisses,
                   requestsProcessed, queueFullErrors, params, cacheKey,
                   cancelled, processedImage, err, status, body, input, hit,
                   invoked, evictions>>

\* Line 71: the select receives from the closed signal.
WaitSignal(r) ==
    /\ pc[r] = "wait"
    /\ existing[r] \in closed
    /\ pc' = [pc EXCEPT ![r] = "recheck"]
    /\ UNCHANGED <<qvars, fvars, mvars, lvars, imageCache, inflight, closed, counters, params, cacheKey,
                   loaded, existing, cancelled, processedImage, err, status,
                   body, input, hit, invoked, evictions>>

\* A cancelled waiter that goes on to process the image itself.
WaitCancelledFallsThrough(r) ==
    /\ pc[r] = "wait"
    /\ cancelled[r]
    /\ pc' = [pc EXCEPT ![r] = "produce"]
    /\ UNCHANGED <<qvars, fvars, mvars, lvars, imageCache, inflight, closed,
                   counters, params, cacheKey, loaded, existing, cancelled,
                   processedImage, err, status, body, input, hit, invoked,
                   evictions>>

\* Lines 78-80: the select receives from r.Context().Done().
WaitCancelled(r) ==
    /\ pc[r] = "wait"
    /\ cancelled[r]
    /\ Respond(r, 500, NilBytes)
    /\ UNCHANGED <<qvars, fvars, mvars, lvars, imageCache, inflight, closed, counters, params, cacheKey,
                   loaded, existing, cancelled, processedImage, err, input,
                   hit, invoked, evictions>>

\* A waiter that registers again after a miss, and so may wait again.
RecheckRetries(r) ==
    /\ pc[r] = "recheck"
    /\ IF Get(imageCache, cacheKey[r]).ok
       THEN Respond(r, 200, Get(imageCache, cacheKey[r]).value)
       ELSE /\ pc' = [pc EXCEPT ![r] = "claim"]
            /\ UNCHANGED <<status, body>>
    /\ UNCHANGED <<qvars, fvars, mvars, lvars, imageCache, inflight, closed,
                   counters, params, cacheKey, loaded, existing, cancelled,
                   processedImage, err, input, hit, invoked, evictions>>

\* Lines 73-77: the second look at the cache, after the signal.
Recheck(r) ==
    /\ pc[r] = "recheck"
    /\ IF Get(imageCache, cacheKey[r]).ok
       THEN Respond(r, 200, Get(imageCache, cacheKey[r]).value)
       ELSE /\ pc' = [pc EXCEPT ![r] = "produce"]
            /\ UNCHANGED <<status, body>>
    /\ UNCHANGED <<qvars, fvars, mvars, lvars, imageCache, inflight, closed, counters, params, cacheKey,
                   loaded, existing, cancelled, processedImage, err, input,
                   hit, invoked, evictions>>

\* Lines 85-98: count, build the task, call ImageProcessor.ProcessImage.
ProduceStart(r) ==
    /\ pc[r] = "produce"
    /\ requestsProcessed' = requestsProcessed + 1
    /\ invoked' = [invoked EXCEPT ![r] = TRUE]
    /\ pc' = [pc EXCEPT ![r] = "processing"]
    /\ UNCHANGED <<qvars, fvars, mvars, lvars, imageCache, inflight, closed, cacheHits, cacheMisses,
                   requestsCoalesced, queueFullErrors, params, cacheKey,
                   loaded, existing, cancelled, processedImage, err, status,
                   body, input, hit, evictions>>

\* Line 98: ProcessImage returns (bytes, nil) or (nil, error).
ProcessImageReturn(r, e) ==
    /\ pc[r] = "processing"
    /\ e \in {"nil", "QueueFull", "Other"}
    /\ err' = [err EXCEPT ![r] = e]
    /\ processedImage' = [processedImage EXCEPT ![r] =
           IF e = "nil" THEN Render(BuildTask(params[r])) ELSE NilBytes]
    /\ pc' = [pc EXCEPT ![r] = "cleanup"]
    /\ UNCHANGED <<qvars, fvars, mvars, lvars, imageCache, inflight, closed, counters, params, cacheKey,
                   loaded, existing, cancelled, status, body, input, hit,
                   invoked, evictions>>

\* Line 98: ProcessImage panics; the handler unwinds (it defers nothing) to
\* handler.Recovery, which writes 500.
ProcessImagePanic(r) ==
    /\ pc[r] = "processing"
    /\ err' = [err EXCEPT ![r] = "panic"]
    /\ Respond(r, 500, NilBytes)
    /\ UNCHANGED <<qvars, fvars, mvars, lvars, imageCache, inflight, closed, counters, params, cacheKey,
                   loaded, existing, cancelled, processedImage, input, hit,
                   invoked, evictions>>

\* A cleanup that does not look at loaded: every request deletes the entry.
CleanupDeleteAlways(r) ==
    /\ pc[r] = "cleanup"
    /\ inflight' = Del(inflight, cacheKey[r])
    /\ pc' = [pc EXCEPT ![r] = "close"]
    /\ UNCHANGED <<qvars, fvars, mvars, lvars, imageCache, closed, counters, params,
                   cacheKey, loaded, existing, cancelled, processedImage, err,
                   status, body, input, hit, invoked, evictions>>

\* Lines 101-102: a.inflight.Delete(cacheKey) by the request that stored.
CleanupDelete(r) ==
    /\ pc[r] = "cleanup"
    /\ ~loaded[r]
    /\ inflight' = Del(inflight, cacheKey[r])
    /\ pc' = [pc EXCEPT ![r] = "close"]
    /\ UNCHANGED <<qvars, fvars, mvars, lvars, imageCache, closed, counters, params, cacheKey, loaded,
                   existing, cancelled, processedImage, err, status, body,
                   input, hit, invoked, evictions>>

\* Line 103: close(done).
CleanupClose(r) ==
    /\ pc[r] = "close"
    /\ closed' = closed \cup {r}
    /\ pc' = [pc EXCEPT ![r] = "finish"]
    /\ UNCHANGED <<qvars, fvars, mvars, lvars, imageCache, inflight, counters, params, cacheKey, loaded,
                   existing, cancelled, processedImage, err, status, body,
                   input, hit, invoked, evictions>>

\* A cache written before the error is looked at.
CacheAlways(cache, k, e, bytes) == Put(cache, k, bytes)

\* The cache after lines 106-117 for a call that returned (bytes, e).
CacheAfter(cache, k, e, bytes) ==
    IF e = "nil" THEN Put(cache, k, bytes) ELSE cache

\* An error mapping that does not know the queue-full error.
StatusIgnoresQueueFull(e) == IF e = "nil" THEN 200 ELSE 500

\* Lines 106-119: the status the handler answers with after ProcessImage
\* returned e (handler.ServiceUnavailable, handler.InternalServerError, or
\* the 200 of sendImage).
StatusOf(e) ==
    IF e = "nil" THEN 200 ELSE IF e = "QueueFull" THEN 503 ELSE 500

\* Lines 106-119: map the error, or add to the cache and send the image.
Finish(r) ==
    /\ \/ pc[r] = "finish"
       \/ pc[r] = "cleanup" /\ loaded[r]
    /\ imageCache' = CacheAfter(imageCache, cacheKey[r], err[r],
                                processedImage[r])
    /\ queueFullErrors' = IF err[r] = "QueueFull" THEN queueFullErrors + 1
                          ELSE queueFullErrors
    /\ Respond(r, StatusOf(err[r]), processedImage[r])
    /\ UNCHANGED <<qvars, fvars, mvars, lvars, inflight, closed, cacheHits, cacheMisses,
                   requestsCoalesced, requestsProcessed, params, cacheKey,
                   loaded, existing, cancelled, processedImage, err, input,
                   hit, invoked, evictions>>

\* The request's context is cancelled (the client went away, or the
\* handler timeout fired).
Cancel(r) ==
    /\ pc[r] \notin {"idle", "done"}
    /\ ~cancelled[r]
    /\ cancelled' = [cancelled EXCEPT ![r] = TRUE]
    /\ UNCHANGED <<qvars, fvars, mvars, lvars, imageCache, inflight, closed, counters, pc, params,
                   cacheKey, loaded, existing, processedImage, err, status,
                   body, input, hit, invoked, evictions>>

\* The expirable LRU drops an entry (its TTL ran out, or it was evicted).
Evict(k) ==
    /\ Has(imageCache, k)
    /\ evictions < MaxEvict
    /\ imageCache' = Del(imageCache, k)
    /\ evictions' = evictions + 1
    /\ UNCHANGED <<qvars, fvars, mvars, lvars, inflight, closed, counters, pc, params, cacheKey, loaded,
                   existing, cancelled, processedImage, err, status, body,
                   input, hit, invoked>>

NextH ==
    \/ \E r \in Req, p \in ParamSet, hm \in {"error", "invalid", "valid"},
          pe \in {"error", "ok"} : HandlerEntry(r, p, hm, pe)
    \/ \E r \in Req : CacheLookup(r)
    \/ \E r \in Req : Claim(r)
    \/ \E r \in Req : WaitSignal(r)
    \/ \E r \in Req : WaitCancelled(r)
    \/ \E r \in Req : Recheck(r)
    \/ \E r \in Req : ProduceStart(r)
    \/ \E r \in Req, e \in {"nil", "QueueFull", "Other"} :
          ProcessImageReturn(r, e)
    \/ \E r \in Req : ProcessImagePanic(r)
    \/ \E r \in Req : CleanupDelete(r)
    \/ \E r \in Req : CleanupClose(r)
    \/ \E r \in Req : Finish(r)
    \/ \E r \in Req : Cancel(r)
    \/ \E k \in Keys : Evict(k)

Spec == Init /\ [][NextH]_vars

(***************************************************************************)
(* The middleware of Router around imageHandler: handler.Logger around     *)
(* http.TimeoutHandler.  The handler runs with a context that is done when *)
(* the client goes away or when the handler timeout fires; Logger reads    *)
(* the request's own context, which only the client's going away cancels.  *)
(***************************************************************************)
\* A Logger that takes every 503 for a client cancellation.
SeverityOfCodeOnly(code, ctxErr) ==
    IF code = 503 THEN "Info"
    ELSE IF code >= 500 THEN "Error"
    ELSE "Debug"

\* Logger, lines 41-53: the severity of the log line of a request that
\* ended with the status code, its context's error being ctxErr.
Severity(code, ctxErr) ==
    IF code = 503 /\ ctxErr = "Canceled" THEN "Info"
    ELSE IF code = 503 /\ ctxErr = "DeadlineExceeded" THEN "Error"
    ELSE IF code >= 500 THEN "Error"
    ELSE "Debug"

\* The client goes away while its request is being served: the request's
\* context is cancelled, and with it the handler's.
Disconnect(r) ==
    /\ pc[r] # "idle"
    /\ logged[r] = "none"
    /\ ~clientGone[r]
    /\ clientGone' = [clientGone EXCEPT ![r] = TRUE]
    /\ cancelled' = [cancelled EXCEPT ![r] = TRUE]
    /\ goneWaiting' = [goneWaiting EXCEPT ![r] =
                          pc[r] = "wait" /\ existing[r] \notin closed]
    /\ UNCHANGED <<qvars, fvars, lvars, imageCache, inflight, closed,
                   counters, pc, params, cacheKey, loaded, existing,
                   processedImage, err, status, body, input, hit, invoked,
                   evictions, written, logged>>

\* The status codes the select of http.TimeoutHandler can pass on: the
\* handler's own once it has returned (case <-done), 503 once the handler's
\* context is done (case <-ctx.Done()).
TimeoutCodes(r) ==
    (IF pc[r] = "done" THEN {status[r]} ELSE {})
    \cup (IF cancelled[r] THEN {503} ELSE {})

\* http.TimeoutHandler returns with one of the codes, and Logger writes the
\* log line of the request.
LogRequest(r) ==
    /\ pc[r] # "idle"
    /\ logged[r] = "none"
    /\ \E code \in TimeoutCodes(r) :
           /\ written' = [written EXCEPT ![r] = code]
           /\ logged' = [logged EXCEPT ![r] =
                  Severity(code, IF clientGone[r] THEN "Canceled" ELSE "nil")]
    /\ UNCHANGED <<hvars, qvars, fvars, lvars, clientGone, goneWaiting>>

\* The parameters of the requests served.
ServedParams == CHOOSE p \in ParamSet : p.BlurAmount = 3

\* The requests served are validated requests for one image, ProcessImage
\* returns or fails without panicking, and nothing is evicted meanwhile.
\* Cancel is the handler timeout.
NextServe ==
    \/ \E r \in Req : HandlerEntry(r, ServedParams, "valid", "ok")
    \/ \E r \in Req : CacheLookup(r)
    \/ \E r \in Req : Claim(r)
    \/ \E r \in Req : WaitSignal(r)
    \/ \E r \in Req : WaitCancelled(r)
    \/ \E r \in Req : Recheck(r)
    \/ \E r \in Req : ProduceStart(r)
    \/ \E r \in Req, e \in {"nil", "Other"} : ProcessImageReturn(r, e)
    \/ \E r \in Req : CleanupDelete(r)
    \/ \E r \in Req : CleanupClose(r)
    \/ \E r \in Req : Finish(r)
    \/ \E r \in Req : Cancel(r)
    \/ \E r \in Req : Disconnect(r)
    \/ \E r \in Req : LogRequest(r)

ServeSpec == Init /\ [][NextServe]_vars

(***************************************************************************)
(* queue.Queue: New, Run, worker and Process.  A job is named by its       *)
(* caller; the callers are interchangeable and call in the order of their  *)
(* names.                                                                  *)
(***************************************************************************)
\* New: make(chan job, workers*4).
Cap == NWorkers * QueueFactor

\* Run, lines 42-44: go q.worker(), q.workers times.
RunSpawn ==
    /\ runpc = "spawn"
    /\ spawned < NWorkers
    /\ wpc' = [wpc EXCEPT ![spawned + 1] = "select"]
    /\ spawned' = spawned + 1
    /\ runpc' = IF spawned + 1 = NWorkers THEN "wait" ELSE "spawn"
    /\ UNCHANGED <<hvars, fvars, mvars, lvars, qctxDone, queue, qclosed, wjob, wres, cpc, cctx,
                   resultChan, ret, enqueued, handled, afterShutdown>>

\* Run, lines 46-47: <-q.ctx.Done(), then close(q.queue).
RunClose ==
    /\ runpc = "wait"
    /\ qctxDone
    /\ qclosed' = TRUE
    /\ runpc' = "returned"
    /\ UNCHANGED <<hvars, fvars, mvars, lvars, qctxDone, spawned, queue, wpc, wjob, wres, cpc,
                   cctx, resultChan, ret, enqueued, handled, afterShutdown>>

\* The parent (shutdown) context is cancelled.
Shutdown ==
    /\ ~qctxDone
    /\ qctxDone' = TRUE
    /\ UNCHANGED <<hvars, fvars, mvars, lvars, runpc, spawned, queue, qclosed, wpc, wjob, wres,
                   cpc, cctx, resultChan, ret, enqueued, handled,
                   afterShutdown>>

\* worker, line 57: a job is received from q.queue.
WorkerRecv(w) ==
    /\ wpc[w] = "select"
    /\ queue # <<>>
    /\ wjob' = [wjob EXCEPT ![w] = Head(queue)]
    /\ queue' = Tail(queue)
    /\ wpc' = [wpc EXCEPT ![w] = "check"]
    /\ UNCHANGED <<hvars, fvars, mvars, lvars, qctxDone, runpc, spawned, qclosed, wres, cpc, cctx,
                   resultChan, ret, enqueued, handled, afterShutdown>>

\* worker, lines 57-60: the receive finds q.queue closed and empty.
WorkerClosed(w) ==
    /\ wpc[w] = "select"
    /\ queue = <<>>
    /\ qclosed
    /\ wpc' = [wpc EXCEPT ![w] = "exited"]
    /\ UNCHANGED <<hvars, fvars, mvars, lvars, qctxDone, runpc, spawned, queue, qclosed, wjob,
                   wres, cpc, cctx, resultChan, ret, enqueued, handled,
                   afterShutdown>>

\* worker, lines 71-72: the select receives from q.ctx.Done().
WorkerCtxDone(w) ==
    /\ wpc[w] = "select"
    /\ qctxDone
    /\ wpc' = [wpc EXCEPT ![w] = "exited"]
    /\ UNCHANGED <<hvars, fvars, mvars, lvars, qctxDone, runpc, spawned, queue, qclosed, wjob,
                   wres, cpc, cctx, resultChan, ret, enqueued, handled,
                   afterShutdown>>

\* A worker that calls the handler without looking at the job's context.
WorkerCheckIgnoresContext(w) ==
    /\ wpc[w] = "check"
    /\ handled' = [handled EXCEPT ![wjob[w]] = @ + 1]
    /\ wpc' = [wpc EXCEPT ![w] = "handling"]
    /\ UNCHANGED <<hvars, fvars, mvars, lvars, qctxDone, runpc, spawned, queue,
                   qclosed, wjob, wres, cpc, cctx, resultChan, ret, enqueued,
                   afterShutdown>>

\* A worker without the continue of line 65: it sends the cancellation
\* error and then calls the handler all the same.
WorkerCheckNoContinue(w) ==
    /\ wpc[w] = "check"
    /\ resultChan' = [resultChan EXCEPT ![wjob[w]] =
                         IF cctx[wjob[w]] THEN Append(@, "Canceled") ELSE @]
    /\ handled' = [handled EXCEPT ![wjob[w]] = @ + 1]
    /\ wpc' = [wpc EXCEPT ![w] = "handling"]
    /\ UNCHANGED <<hvars, fvars, mvars, lvars, qctxDone, runpc, spawned, queue,
                   qclosed, wjob, wres, cpc, cctx, ret, enqueued,
                   afterShutdown>>

\* worker, lines 63-68: the job's context is looked at; the handler is
\* called unless it is cancelled.
WorkerCheck(w) ==
    /\ wpc[w] = "check"
    /\ IF cctx[wjob[w]]
       THEN /\ wres' = [wres EXCEPT ![w] = "Canceled"]
            /\ wpc' = [wpc EXCEPT ![w] = "sendres"]
            /\ UNCHANGED handled
       ELSE /\ handled' = [handled EXCEPT ![wjob[w]] = @ + 1]
            /\ wpc' = [wpc EXCEPT ![w] = "handling"]
            /\ UNCHANGED wres
    /\ UNCHANGED <<hvars, fvars, mvars, lvars, qctxDone, runpc, spawned, queue, qclosed, wjob,
                   cpc, cctx, resultChan, ret, enqueued, afterShutdown>>

\* What q.handler can return for the payload of a job: (result, nil), and
\* for the payloads of the first NFailing callers also (nil, err).
HandlerOutcomes(j) == IF j <= NFailing THEN {"ok", "err"} ELSE {"ok"}

\* worker, line 68: q.handler returns.
HandlerReturn(w, o) ==
    /\ wpc[w] = "handling"
    /\ o \in HandlerOutcomes(wjob[w])
    /\ wres' = [wres EXCEPT ![w] = o]
    /\ wpc' = [wpc EXCEPT ![w] = "sendres"]
    /\ UNCHANGED <<hvars, fvars, mvars, lvars, qctxDone, runpc, spawned, queue, qclosed, wjob,
                   cpc, cctx, resultChan, ret, enqueued, handled,
                   afterShutdown>>

\* worker, lines 64 and 69: job.result <- jobResult{...}.
WorkerSend(w) ==
    /\ wpc[w] = "sendres"
    /\ Len(resultChan[wjob[w]]) < ResultCap
    /\ resultChan' = [resultChan EXCEPT ![wjob[w]] = Append(@, wres[w])]
    /\ wpc' = [wpc EXCEPT ![w] = "select"]
    /\ UNCHANGED <<hvars, fvars, mvars, lvars, qctxDone, runpc, spawned, queue, qclosed, wjob,
                   wres, cpc, cctx, ret, enqueued, handled, afterShutdown>>

Return(c, v) ==
    /\ cpc' = [cpc EXCEPT ![c] = "done"]
    /\ ret' = [ret EXCEPT ![c] = v]

\* An entry check that lets every call through.
EntryUnchecked(done) == "go"

\* Process, lines 79-81: what the check of q.ctx.Err() decides.
EntryCheck(done) == IF done THEN "shutdown" ELSE "go"

\* Process, lines 79-83.
ProcessEntry(c) ==
    /\ cpc[c] = "idle"
    /\ \A d \in Callers : d < c => cpc[d] # "idle"
    /\ Cardinality({d \in Callers : cpc[d] = "send"}) < MaxSending
    /\ afterShutdown' = [afterShutdown EXCEPT ![c] = qctxDone]
    /\ IF EntryCheck(qctxDone) = "shutdown"
       THEN Return(c, "shutdown")
       ELSE /\ cpc' = [cpc EXCEPT ![c] = "send"]
            /\ UNCHANGED ret
    /\ UNCHANGED <<hvars, fvars, mvars, lvars, qctxDone, runpc, spawned, queue, qclosed, wpc,
                   wjob, wres, cctx, resultChan, enqueued, handled>>

\* A send that goes through however many jobs the intake holds.
ProcessSendUnbounded(c) ==
    /\ cpc[c] = "send"
    /\ ~qclosed
    /\ queue' = Append(queue, c)
    /\ enqueued' = [enqueued EXCEPT ![c] = TRUE]
    /\ cpc' = [cpc EXCEPT ![c] = "await"]
    /\ UNCHANGED <<hvars, fvars, mvars, lvars, qctxDone, runpc, spawned, qclosed,
                   wpc, wjob, wres, cctx, resultChan, ret, handled,
                   afterShutdown>>

\* Process, lines 86-90: the send case of the first select, q.queue open.
ProcessSend(c) ==
    /\ cpc[c] = "send"
    /\ ~qclosed
    /\ Len(queue) < Cap
    /\ queue' = Append(queue, c)
    /\ enqueued' = [enqueued EXCEPT ![c] = TRUE]
    /\ cpc' = [cpc EXCEPT ![c] = "await"]
    /\ UNCHANGED <<hvars, fvars, mvars, lvars, qctxDone, runpc, spawned, qclosed, wpc, wjob, wres,
                   cctx, resultChan, ret, handled, afterShutdown>>

\* Process, lines 86-90: the send case on the closed q.queue can proceed,
\* and panics ("send on closed channel").
ProcessSendClosed(c) ==
    /\ cpc[c] = "send"
    /\ qclosed
    /\ cpc' = [cpc EXCEPT ![c] = "panicked"]
    /\ ret' = [ret EXCEPT ![c] = "panic"]
    /\ UNCHANGED <<hvars, fvars, mvars, lvars, qctxDone, runpc, spawned, queue, qclosed, wpc,
                   wjob, wres, cctx, resultChan, enqueued, handled,
                   afterShutdown>>

\* Process, lines 91-92.
ProcessSendShutdown(c) ==
    /\ cpc[c] = "send"
    /\ qctxDone
    /\ Return(c, "shutdown")
    /\ UNCHANGED <<hvars, fvars, mvars, lvars, qctxDone, runpc, spawned, queue, qclosed, wpc,
                   wjob, wres, cctx, resultChan, enqueued, handled,
                   afterShutdown>>

\* Process, lines 93-94.
ProcessSendCancelled(c) ==
    /\ cpc[c] = "send"
    /\ cctx[c]
    /\ Return(c, "Canceled")
    /\ UNCHANGED <<hvars, fvars, mvars, lvars, qctxDone, runpc, spawned, queue, qclosed, wpc,
                   wjob, wres, cctx, resultChan, enqueued, handled,
                   afterShutdown>>

\* Process, lines 98-103: what Process returns for a received jobResult.
ResultValue(v) == IF v = "ok" THEN "result"
                  ELSE IF v = "err" THEN "handlerError" ELSE v

ProcessAwaitResult(c) ==
    /\ cpc[c] = "await"
    /\ resultChan[c] # <<>>
    /\ Return(c, ResultValue(Head(resultChan[c])))
    /\ resultChan' = [resultChan EXCEPT ![c] = Tail(@)]
    /\ UNCHANGED <<hvars, fvars, mvars, lvars, qctxDone, runpc, spawned, queue, qclosed, wpc,
                   wjob, wres, cctx, enqueued, handled, afterShutdown>>

\* Process, lines 104-107.
ProcessAwaitCancelled(c) ==
    /\ cpc[c] = "await"
    /\ cctx[c]
    /\ Return(c, "Canceled")
    /\ UNCHANGED <<hvars, fvars, mvars, lvars, qctxDone, runpc, spawned, queue, qclosed, wpc,
                   wjob, wres, cctx, resultChan, enqueued, handled,
                   afterShutdown>>

\* The caller's context is cancelled, before or during its Process call
\* (at most MaxCancel contexts in a run).
CancelCaller(c) ==
    /\ cpc[c] \in {"idle", "send", "await"}
    /\ ~cctx[c]
    /\ Cardinality({d \in Callers : cctx[d]}) < MaxCancel
    /\ cctx' = [cctx EXCEPT ![c] = TRUE]
    /\ UNCHANGED <<hvars, fvars, mvars, lvars, qctxDone, runpc, spawned, queue, qclosed, wpc,
                   wjob, wres, cpc, resultChan, ret, enqueued, handled,
                   afterShutdown>>

WorkerStep(w) ==
    \/ WorkerRecv(w)
    \/ WorkerClosed(w)
    \/ WorkerCtxDone(w)
    \/ WorkerCheck(w)
    \/ \E o \in {"ok", "err"} : HandlerReturn(w, o)
    \/ WorkerSend(w)

ProcessStep(c) ==
    \/ ProcessEntry(c)
    \/ ProcessSend(c)
    \/ ProcessSendClosed(c)
    \/ ProcessSendShutdown(c)
    \/ ProcessSendCancelled(c)
    \/ ProcessAwaitResult(c)
    \/ ProcessAwaitCancelled(c)

NextQ ==
    \/ RunSpawn
    \/ RunClose
    \/ Shutdown
    \/ \E w \in Workers : WorkerStep(w)
    \/ \E c \in Callers : ProcessStep(c)
    \/ \E c \in Callers : CancelCaller(c)

QueueSpec == Init /\ [][NextQ]_vars

(***************************************************************************)
(* The fingerprint and the file name of two requests' parameters.          *)
(***************************************************************************)
InitFormat ==
    /\ InitH /\ InitQ /\ InitM /\ InitL
    /\ fpc = "start"
    /\ vecA \in ValidParams /\ vecB \in ValidParams
    /\ keyA = <<>> /\ keyB = <<>> /\ filename = <<>>

\* imageHandler, line 48, for each of the two vectors.
ApplyBuildCacheKey ==
    /\ fpc = "start"
    /\ keyA' = buildCacheKey(vecA)
    /\ keyB' = buildCacheKey(vecB)
    /\ fpc' = "keyed"
    /\ UNCHANGED <<hvars, qvars, mvars, lvars, vecA, vecB, filename>>

\* sendImage, line 124: the file name of the Content-Disposition header of
\* the response to the first vector.
ApplySendImage ==
    /\ fpc = "keyed"
    /\ filename' = buildFilename(vecA)
    /\ fpc' = "sent"
    /\ UNCHANGED <<hvars, qvars, mvars, lvars, vecA, vecB, keyA, keyB>>

NextFormat == ApplyBuildCacheKey \/ ApplySendImage

FormatSpec == InitFormat /\ [][NextFormat]_vars

(***************************************************************************)
(* Logger's switch applied to a status code and a context error.           *)
(***************************************************************************)
\* The status codes a response can carry, and what ctx.Err() can return.
Codes == 100..599
CtxErrs == {"nil", "Canceled", "DeadlineExceeded"}

InitLogger ==
    /\ InitH /\ InitQ /\ InitF /\ InitM
    /\ lpc = "served"
    /\ respCode \in Codes /\ reqCtxErr \in CtxErrs
    /\ severity = "none"

\* Logger, lines 41-53.
ApplySeverity ==
    /\ lpc = "served"
    /\ severity' = Severity(respCode, reqCtxErr)
    /\ lpc' = "logged"
    /\ UNCHANGED <<hvars, qvars, fvars, mvars, respCode, reqCtxErr>>

NextLogger == ApplySeverity

LoggerSpec == InitLogger /\ [][NextLogger]_vars

(***************************************************************************)
(* Properties of imageHandler.                                             *)
(***************************************************************************)
Validated == {r \in Req : input[r].hmac = "valid" /\ input[r].parse = "ok"}
InProgress(k) == {r \in Req : pc[r] = "processing" /\ cacheKey[r] = k}
Stored(r) == pc[r] \notin {"idle", "lookup", "claim"} /\ r \in Validated
             /\ ~hit[r] /\ ~loaded[r]

\* C1: when the validated requests of a run all ask for one fingerprint,
\* all miss the cache on arrival, none is cancelled, every ProcessImage call
\* succeeds and nothing is evicted, then once all have returned
\* ProcessImage was invoked exactly once, requestsProcessed is 1,
\* requestsCoalesced is N-1 and all N responses are 200 with the same bytes.
C1_ProcessedExactlyOnce ==
    ( /\ \A r \in Req : pc[r] = "done"
      /\ Validated # {}
      /\ \A r, q \in Validated : cacheKey[r] = cacheKey[q]
      /\ \A r \in Validated : ~hit[r] /\ ~cancelled[r]
                              /\ err[r] \in {"unset", "nil"}
      /\ evictions = 0 )
    => /\ Cardinality({r \in Validated : invoked[r]}) = 1
       /\ requestsProcessed = 1
       /\ requestsCoalesced = Cardinality(Validated) - 1
       /\ \A r, q \in Validated : status[r] = 200 /\ body[r] = body[q]

\* C2 as stated: for every fingerprint at most one ProcessImage call is in
\* progress.
C2_AtMostOneInProgress ==
    \A k \in Keys : Cardinality(InProgress(k)) <= 1

\* C2 as amended: for every fingerprint at most one ProcessImage call issued
\* by a request that stored the in-flight entry is in progress, and the
\* in-flight map holds that request's signal for as long as the call runs.
C2_AtMostOneStorerInProgress ==
    \A k \in Keys :
        /\ Cardinality({r \in InProgress(k) : ~loaded[r]}) <= 1
        /\ \A r \in InProgress(k) :
               ~loaded[r] => Has(inflight, k) /\ inflight[k] = r

\* A storer and a request that fell through run ProcessImage for the same
\* fingerprint at the same time.
C2_Witness ==
    \E k \in Keys : \E r, q \in InProgress(k) : ~loaded[r] /\ loaded[q]

\* C5: a validated request whose first cache lookup finds the entry returns
\* the cached bytes (those of its fingerprint's task) with 200, adds one to
\* cacheHits, does not invoke ProcessImage then or later, and leaves the
\* in-flight map, the signals, the cache and the other counters alone.
C5_CacheHit ==
    [][\A r \in Req :
        /\ (pc[r] = "lookup" /\ Has(imageCache, cacheKey[r])
              /\ pc'[r] # pc[r])
           => /\ pc'[r] = "done" /\ status'[r] = 200
              /\ body'[r] = imageCache[cacheKey[r]]
              /\ body'[r] = Render(BuildTask(params[r]))
              /\ cacheHits' = cacheHits + 1
              /\ hit'[r] /\ ~invoked'[r]
              /\ UNCHANGED <<imageCache, inflight, closed, cacheMisses,
                             requestsCoalesced, requestsProcessed,
                             queueFullErrors>>
        /\ hit[r] => pc'[r] = "done" /\ ~invoked'[r]]_vars

\* A request was answered from the cache that an earlier request filled.
C5_Witness ==
    \E r, q \in Req : /\ hit[r] /\ pc[r] = "done" /\ status[r] = 200
                      /\ q # r /\ invoked[q] /\ err[q] = "nil"
                      /\ body[r] = processedImage[q]

Rejected(i) == i.hmac \in {"error", "invalid"}
               \/ (i.hmac = "valid" /\ i.parse = "error")

\* C6: a request whose signature check errs gets 500, one whose signature
\* is invalid gets 400, one whose parameters do not parse gets 400, and the
\* step that answers it changes neither the cache, the in-flight map, the
\* signals nor any counter, and ProcessImage is not invoked.
C6_RejectedBeforeWork ==
    [][\A r \in Req :
        (pc[r] = "idle" /\ pc'[r] # "idle" /\ Rejected(input'[r]))
        => /\ pc'[r] = "done"
           /\ status'[r] = (IF input'[r].hmac = "error" THEN 500 ELSE 400)
           /\ ~invoked'[r]
           /\ UNCHANGED <<imageCache, inflight, closed, counters, invoked>>
      ]_vars

\* One request of each kind was rejected.
C6_Witness ==
    \E a, b, c \in Req :
        /\ pc[a] = "done" /\ input[a].hmac = "error" /\ status[a] = 500
        /\ pc[b] = "done" /\ input[b].hmac = "invalid" /\ status[b] = 400
        /\ pc[c] = "done" /\ input[c].hmac = "valid"
        /\ input[c].parse = "error" /\ status[c] = 400

\* C9: once a request that stored an in-flight entry has returned, the
\* entry is deleted and its signal closed, whichever way it returned.
C9_NoLeakedEntry ==
    \A r \in Req :
        (Stored(r) /\ pc[r] = "done")
        => /\ r \in closed
           /\ ~(Has(inflight, cacheKey[r]) /\ inflight[cacheKey[r]] = r)

\* C10: every cache entry is under the fingerprint of some parameter vector,
\* holds the bytes of a ProcessImage call that succeeded for that
\* fingerprint, and these are the bytes of the task built from it.
C10_CacheHoldsRendition ==
    \A k \in DOMAIN imageCache :
        /\ k \in Keys
        /\ \E r \in Req : /\ cacheKey[r] = k /\ invoked[r] /\ err[r] = "nil"
                          /\ imageCache[k] = processedImage[r]
        /\ \A p \in ParamSet :
               buildCacheKey(p) = k => imageCache[k] = Render(BuildTask(p))

\* The cache holds the renditions of two fingerprints.
C10_Witness ==
    \E k, l \in DOMAIN imageCache : k # l /\ imageCache[k] # imageCache[l]

Failed(r) == err[r] \in {"QueueFull", "Other"}

\* C11: a request whose ProcessImage call returned an error adds nothing to
\* the result cache from then on; the step that answers it sets 503 and adds
\* one to queueFullErrors when the error is QueueFull, and sets 500 and
\* leaves queueFullErrors alone for any other error.
C11_ErrorNotCached ==
    [][\A r \in Req :
        (Failed(r) /\ pc'[r] # pc[r])
        => /\ imageCache' = imageCache
           /\ pc'[r] = "done"
              => /\ body'[r] = NilBytes
                 /\ IF err[r] = "QueueFull"
                    THEN /\ status'[r] = 503
                         /\ queueFullErrors' = queueFullErrors + 1
                    ELSE /\ status'[r] = 500
                         /\ queueFullErrors' = queueFullErrors
      ]_vars

\* One request was answered 503 after a queue-full error and another 500
\* after another error, and the cache holds nothing for their fingerprint.
C11_Witness ==
    \E r, q \in Req :
        /\ pc[r] = "done" /\ err[r] = "QueueFull" /\ status[r] = 503
        /\ pc[q] = "done" /\ err[q] = "Other" /\ status[q] = 500
        /\ queueFullErrors = 1
        /\ cacheKey[r] = cacheKey[q] /\ ~Has(imageCache, cacheKey[r])

\* The waiter r left its wait through the cancellation case.
GaveUp(r) == pc[r] = "done" /\ loaded[r] /\ ~invoked[r] /\ status[r] = 500

\* C14: a waiter whose client went away before the signal fired, and that
\* returned on it, has its log line at Info; the entry of the producer it
\* waited for stays registered while the producer works; and every other
\* waiter on that signal whose context stayed live has answered 200 once it
\* has returned after the producer succeeded.
C14_DisconnectedWaiterLoggedInfo ==
    \A r \in Req :
        (goneWaiting[r] /\ GaveUp(r))
        => /\ logged[r] \in {"none", "Info"}
           /\ pc[existing[r]] \in {"produce", "processing", "cleanup"}
              => /\ Has(inflight, cacheKey[r])
                 /\ inflight[cacheKey[r]] = existing[r]
           /\ \A q \in Req \ {r} :
                 ( /\ loaded[q] /\ existing[q] = existing[r]
                   /\ pc[q] = "done" /\ ~cancelled[q]
                   /\ err[existing[r]] = "nil" )
                 => status[q] = 200

\* C15: once a producer whose ProcessImage call succeeded has closed its
\* signal, the cache holds its result (nothing having been evicted), and no
\* waiter woken by that signal has missed the cache on its re-read.
C15_CachedBeforeSignal ==
    \A r \in closed :
        (err[r] = "nil" /\ evictions = 0)
        => /\ Has(imageCache, cacheKey[r])
           /\ imageCache[cacheKey[r]] = processedImage[r]
           /\ \A q \in Req :
                 (loaded[q] /\ existing[q] = r)
                 => pc[q] \in {"wait", "recheck", "done"} /\ ~invoked[q]

\* The request r has stored its signal and not yet closed it.
InWindow(r) == Stored(r) /\ r \notin closed

\* The request r has stored its signal and not yet deleted the entry.
Registered(r) == /\ Stored(r) /\ Has(inflight, cacheKey[r])
                 /\ inflight[cacheKey[r]] = r

\* The step takes q onto the producer path: it adds to requestsProcessed
\* and calls ProcessImage.
StartsProducing(q) == pc[q] = "produce" /\ pc'[q] = "processing"

\* C16 as stated: while a request that stored its signal for a fingerprint
\* has not closed it, no other request for that fingerprint reaches the
\* producer path.
C16_SingleProducerWindow ==
    [][\A r, q \in Req :
        (q # r /\ InWindow(r) /\ cacheKey[q] = cacheKey[r])
        => ~StartsProducing(q)]_vars

\* C16 as amended: while a request that stored its signal for a fingerprint
\* has not deleted the entry, every LoadOrStore of another request for the
\* fingerprint loads that signal, and every other request that reaches the
\* producer path for it is a waiter that fell through.
C16_SingleStorerWindow ==
    [][\A r, q \in Req :
        (q # r /\ Registered(r) /\ cacheKey[q] = cacheKey[r])
        => /\ (pc[q] = "claim" /\ pc'[q] # "claim")
              => loaded'[q] /\ existing'[q] = r /\ pc'[q] = "wait"
           /\ StartsProducing(q) => loaded[q] /\ existing[q] # r
      ]_vars

\* A waiter on an earlier signal, woken to a cache miss, is in ProcessImage
\* together with the request that stored the current signal.
C16_Witness ==
    \E r, q \in Req :
        /\ q # r /\ Registered(r) /\ pc[r] = "processing"
        /\ cacheKey[q] = cacheKey[r] /\ loaded[q] /\ existing[q] # r
        /\ existing[q] \in closed /\ pc[q] = "processing"

\* C17: no step of a request that loaded an existing signal changes the
\* in-flight map or closes a signal: neither its LoadOrStore, nor its wait,
\* its re-read of the cache, its own processing, nor its return.
C17_WaiterLeavesInflight ==
    [][\A r \in Req :
        (loaded'[r] /\ pc'[r] # pc[r])
        => UNCHANGED <<inflight, closed>>]_vars

\* A waiter fell through, processed the image itself and returned, and the
\* entry another request stored meanwhile is still registered.
C17_Witness ==
    \E r, q \in Req :
        /\ loaded[q] /\ invoked[q] /\ pc[q] = "done"
        /\ q # r /\ Registered(r) /\ cacheKey[q] = cacheKey[r]

\* C18: a waiter whose context is cancelled while the signal it waits for
\* has not fired leaves the wait by returning 500, without invoking
\* ProcessImage, adding to requestsProcessed or writing the cache; and it
\* does nothing afterwards.
C18_CancelledWaiterReturns500 ==
    [][\A r \in Req :
        /\ ( /\ pc[r] = "wait" /\ cancelled[r]
              /\ existing[r] \notin closed /\ pc'[r] # "wait" )
           => /\ pc'[r] = "done" /\ status'[r] = 500
              /\ body'[r] = NilBytes /\ ~invoked'[r]
              /\ UNCHANGED <<requestsProcessed, imageCache, inflight,
                             closed>>
        /\ GaveUp(r) => GaveUp(r)'
      ]_vars

\* A cancelled waiter has returned 500 while the producer it waited for is
\* still in ProcessImage.
C18_Witness ==
    \E r \in Req :
        /\ GaveUp(r) /\ cancelled[r]
        /\ pc[existing[r]] = "processing" /\ existing[r] \notin closed
        /\ requestsProcessed = 1 /\ imageCache = <<>>

\* How far an execution of imageHandler has come.
Rank(p) ==
    CASE p = "idle" -> 0
      [] p = "lookup" -> 1
      [] p = "claim" -> 2
      [] p = "wait" -> 3
      [] p = "recheck" -> 4
      [] p = "produce" -> 5
      [] p = "processing" -> 6
      [] p = "cleanup" -> 7
      [] p = "close" -> 8
      [] p = "finish" -> 9
      [] p = "done" -> 10

\* The request r can take a step of its own, or waits for a signal whose
\* producer is still on its way to closing it.
CanGoOn(r) ==
    \/ pc[r] \in {"lookup", "claim", "recheck", "produce", "processing",
                  "cleanup", "close", "finish"}
    \/ pc[r] = "wait"
       /\ \/ cancelled[r]
          \/ existing[r] \in closed
          \/ pc[existing[r]] \in {"produce", "processing", "cleanup", "close"}

\* C24: every step of a request takes it strictly forward through the
\* handler, so it starts waiting at most once (on one signal, which it keeps)
\* and invokes ProcessImage at most once, whatever became of the producers
\* of its fingerprint; and as long as no ProcessImage call has failed to
\* return (panicked), every request that has not yet answered can go on.
C24_BoundedSteps ==
    [][\A r \in Req :
        /\ pc'[r] # pc[r]
           => /\ Rank(pc'[r]) > Rank(pc[r])
              /\ pc'[r] = "wait" => pc[r] = "claim"
              /\ pc'[r] = "processing" => ~invoked[r] /\ invoked'[r]
        /\ pc[r] \notin {"idle", "lookup", "claim"}
           => existing'[r] = existing[r] /\ loaded'[r] = loaded[r]
        /\ invoked[r] => invoked'[r] /\ pc'[r] # "produce"
        /\ (\A q \in Req : err'[q] # "panic")
           => (pc'[r] \in {"idle", "done"} \/ CanGoOn(r)')
      ]_vars

\* A waiter whose producer failed went on to process the image itself,
\* failed as well, and answered 500 without waiting or trying again.
C24_Witness ==
    \E r \in Req :
        /\ loaded[r] /\ invoked[r] /\ pc[r] = "done" /\ status[r] = 500
        /\ err[r] = "Other" /\ err[existing[r]] \in {"Other", "QueueFull"}

\* C25: a signal is closed by the request that made and stored it, which
\* closes it once; and the entry a request deletes is the one that holds
\* its own signal: no step removes the entry or closes the signal of
\* another request.
C25_OwnSignalOnly ==
    [][/\ \A r \in Req :
           /\ (pc[r] = "close" /\ pc'[r] # "close")
              => /\ r \notin closed /\ closed' = closed \cup {r}
                 /\ Stored(r) /\ inflight' = inflight
           /\ (pc[r] = "cleanup" /\ pc'[r] = "close")
              => /\ Stored(r) /\ Has(inflight, cacheKey[r])
                 /\ inflight[cacheKey[r]] = r
                 /\ inflight' = Del(inflight, cacheKey[r])
                 /\ closed' = closed
       /\ closed' # closed
          => \E r \in Req : pc[r] = "close" /\ pc'[r] = "finish"
                             /\ closed' = closed \cup {r}
       /\ \A k \in DOMAIN inflight :
           k \notin DOMAIN inflight'
           => \E r \in Req : /\ inflight[k] = r /\ cacheKey[r] = k
                             /\ pc[r] = "cleanup" /\ pc'[r] = "close"
       /\ \A k \in DOMAIN inflight \cap DOMAIN inflight' :
           inflight'[k] = inflight[k]
      ]_vars

\* Two requests stored a signal for the same fingerprint in turn, and each
\* deleted its entry and closed its signal.
C25_Witness ==
    \E r, q \in Req :
        /\ r # q /\ cacheKey[r] = cacheKey[q]
        /\ Stored(r) /\ Stored(q) /\ r \in closed /\ q \in closed
        /\ inflight = <<>>

(***************************************************************************)
(* Properties of the fingerprint and the file name.                        *)
(***************************************************************************)
\* The length of "{id}-{width}x{height}", with which both strings start.
StemLen(p) == Len(p.id) + 1 + Len(Itoa(p.Width)) + 1 + Len(Itoa(p.Height))

\* The string k with the e characters after its first n moved to its end.
MoveToEnd(k, n, e) ==
    SubSeq(k, 1, n) \o SubSeq(k, n + e + 1, Len(k)) \o SubSeq(k, n + 1, n + e)

\* C12 as stated: the file name of the Content-Disposition header of a
\* successful response equals the fingerprint of the same parameters.
C12_FilenameIsFingerprint ==
    fpc = "sent" => filename = keyA

\* C12 as amended: the file name is the fingerprint with the extension moved
\* from after the height to the end, so the two are equal exactly when
\* neither blur nor grayscale is set.
C12_FilenameIsFingerprintExtensionLast ==
    fpc = "sent"
    => /\ filename = MoveToEnd(keyA, StemLen(vecA), Len(vecA.Extension))
       /\ (filename = keyA) <=> (~vecA.Blur /\ ~vecA.Grayscale)

\* A response to a blurred grayscale request whose file name differs from
\* the fingerprint.
C12_Witness ==
    /\ fpc = "sent" /\ vecA.Blur /\ vecA.Grayscale
    /\ filename # keyA /\ Len(filename) = Len(keyA)

\* The vector as buildCacheKey reads it: the blur amount counts only when
\* blur is set.
Significant(p) == [p EXCEPT !.BlurAmount = IF p.Blur THEN @ ELSE 0]

\* C13: the fingerprints of two valid parameter vectors are equal if and
\* only if the vectors are equal, the blur amount being ignored when blur is
\* not set.
C13_FingerprintInjective ==
    fpc \in {"keyed", "sent"}
    => ((keyA = keyB) <=> (Significant(vecA) = Significant(vecB)))

\* Two vectors that differ in the id and in the width only, the id of one
\* holding the separators of the format, have different fingerprints of the
\* same length.
C13_Witness ==
    /\ fpc = "keyed"
    /\ vecA.id # vecB.id /\ vecA.Width # vecB.Width
    /\ keyA # keyB /\ Len(keyA) = Len(keyB)

(***************************************************************************)
(* Properties of the request log.                                          *)
(***************************************************************************)
\* C22: the log line is at Info exactly when the status is 503 and the
\* context error is Canceled, at Error exactly when the status is at least
\* 500 otherwise (503 with DeadlineExceeded among these), and at Debug
\* exactly when the status is below 500.
C22_SeverityTable ==
    lpc = "logged"
    => /\ severity \in {"Info", "Error", "Debug"}
       /\ (severity = "Info") <=> (respCode = 503 /\ reqCtxErr = "Canceled")
       /\ (severity = "Error")
             <=> (respCode >= 500 /\ ~(respCode = 503 /\ reqCtxErr = "Canceled"))
       /\ (respCode = 503 /\ reqCtxErr = "DeadlineExceeded") => severity = "Error"
       /\ (severity = "Debug") <=> (respCode < 500)

\* The line of a 503 whose context ran into its deadline was written at
\* Error.
C22_Witness ==
    /\ lpc = "logged" /\ respCode = 503 /\ reqCtxErr = "DeadlineExceeded"
    /\ severity = "Error"

(***************************************************************************)
(* Properties of the queue.                                                *)
(***************************************************************************)
QueueFull == Len(queue) = Cap
AllBusy == \A w \in Workers : wpc[w] = "handling"
Ended(c) == cpc[c] \in {"done", "panicked"}

\* C3: when the intake holds 4 x workers jobs and every worker is in the
\* handler, the next step of a Process call that is at its send select is
\* to return QueueFull, without having enqueued its job.
C3_QueueFullFailsFast ==
    [][\A c \in Callers :
        (cpc[c] = "send" /\ QueueFull /\ AllBusy /\ cpc'[c] # "send")
        => (cpc'[c] = "done" /\ ret'[c] = "QueueFull" /\ ~enqueued'[c])
      ]_vars

\* A Process call is at its send select with the intake full, every worker
\* in the handler, no shutdown and its context live: no case of the select
\* can proceed.
C3_Witness ==
    \E c \in Callers : /\ cpc[c] = "send" /\ QueueFull /\ AllBusy
                       /\ ~qctxDone /\ ~cctx[c]

\* C4: a Process call whose context is cancelled and that has ended has
\* returned, and what it returned is a result, the handler's error, a
\* cancellation error, a shutdown error or a queue-full error.
C4_CancelledCallReturns ==
    \A c \in Callers :
        (cctx[c] /\ Ended(c))
        => /\ cpc[c] = "done"
           /\ ret[c] \in {"result", "handlerError", "Canceled", "shutdown",
                          "QueueFull"}

\* C7: a Process call that starts after the parent context is cancelled has
\* returned the shutdown error by its first step: its job is not in the
\* intake, was never enqueued, and the handler was never invoked for it.
C7_RefusedAfterShutdown ==
    \A c \in Callers :
        afterShutdown[c]
        => /\ cpc[c] = "done" /\ ret[c] = "shutdown"
           /\ ~enqueued[c] /\ handled[c] = 0
           /\ \A i \in 1..Len(queue) : queue[i] # c
           /\ \A w \in Workers : wjob[w] # c
           /\ resultChan[c] = <<>>

\* A call was refused after shutdown while an earlier one was still waiting
\* for its result.
C7_Witness ==
    \E c, d \in Callers : /\ afterShutdown[c] /\ ret[c] = "shutdown"
                          /\ cpc[d] = "await"

\* C8: the workers exit only after draining the intake: once every worker
\* has exited no enqueued job is left in it.
C8_WorkersExitAfterDrain ==
    (\A w \in Workers : wpc[w] = "exited") => queue = <<>>

\* C19: when a worker looks at the job it has dequeued and the job's context
\* is cancelled, it does not invoke the handler, and what it goes on to send
\* is the context's error; otherwise it invokes the handler, once, and what
\* it goes on to send is what the handler returned.  The send puts that
\* value on the job's result channel and the worker is back at its select.
\* No job is ever handled twice, and the value on a job's result channel is
\* the context's error exactly if the job was never handled.
C19_CancelledJobNotHandled ==
    [][/\ \A w \in Workers :
           /\ (wpc[w] = "check" /\ wpc'[w] # "check")
              => IF cctx[wjob[w]]
                 THEN /\ handled' = handled
                      /\ wres'[w] = "Canceled" /\ wpc'[w] = "sendres"
                 ELSE /\ handled'[wjob[w]] = handled[wjob[w]] + 1
                      /\ wpc'[w] = "handling"
           /\ (wpc[w] = "handling" /\ wpc'[w] # "handling")
              => /\ wres'[w] \in HandlerOutcomes(wjob[w])
                 /\ wpc'[w] = "sendres" /\ handled' = handled
           /\ (wpc[w] = "sendres" /\ wpc'[w] # "sendres")
              => /\ resultChan'[wjob[w]] = <<wres[w]>>
                 /\ wpc'[w] = "select" /\ handled' = handled
       /\ \A c \in Callers :
           /\ handled'[c] <= 1
           /\ resultChan'[c] # <<>>
              => (Head(resultChan'[c]) = "Canceled" <=> handled'[c] = 0)
      ]_vars

\* The worker skipped a cancelled job, whose context's error waits on its
\* result channel, and went on to handle the next one.
C19_Witness ==
    \E c, d \in Callers :
        /\ enqueued[c] /\ handled[c] = 0 /\ resultChan[c] = <<"Canceled">>
        /\ c < d /\ handled[d] = 1 /\ ret[d] = "result"

\* The places a job can be: in the intake, with a worker, or as a result on
\* its result channel.
Tokens(c) ==
    Cardinality({i \in 1..Len(queue) : queue[i] = c})
    + Cardinality({w \in Workers :
                     wjob[w] = c /\ wpc[w] \in {"check", "handling", "sendres"}})
    + Len(resultChan[c])

\* C20: a worker that is about to send a job's result finds room on the
\* result channel: the channel has capacity 1, and a job is in one place at
\* a time (the intake, a worker or its result channel), so that at most one
\* value is ever sent on it, whether or not the caller still waits for it.
C20_WorkerSendNeverBlocks ==
    /\ \A w \in Workers :
           wpc[w] = "sendres" => Len(resultChan[wjob[w]]) < ResultCap
    /\ \A c \in Callers :
           /\ Len(resultChan[c]) <= ResultCap
           /\ Tokens(c) <= 1
           /\ ~enqueued[c] => Tokens(c) = 0

\* A caller returned on its cancellation, the worker completed its job all
\* the same and left the result on the channel, and then took the next job.
C20_Witness ==
    \E c, d \in Callers :
        /\ cpc[c] = "done" /\ ret[c] = "Canceled" /\ handled[c] = 1
        /\ resultChan[c] = <<"ok">>
        /\ c < d /\ \E w \in Workers : wjob[w] = d /\ wpc[w] = "handling"

\* C23: no Process call sends on the intake after Run has closed it: none
\* ends in the panic of a send on a closed channel, and a call that is at
\* its send select once the intake is closed leaves it by returning the
\* shutdown error (or its own context's error).
C23_NoSendOnClosedIntake ==
    [][\A c \in Callers :
        /\ cpc'[c] # "panicked" /\ ret'[c] # "panic"
        /\ (cpc[c] = "send" /\ qclosed /\ cpc'[c] # "send")
           => /\ cpc'[c] = "done" /\ ~enqueued'[c]
              /\ ret'[c] \in {"shutdown", "Canceled"}
              /\ ~cctx[c] => ret'[c] = "shutdown"
      ]_vars

\* The workers that are inside q.handler.
Handling == {w \in Workers : wpc[w] = "handling"}

\* C21: the intake never holds more than 4 x W jobs, and the handler
\* invocations in progress are those of distinct jobs taken by worker
\* goroutines that Run has started, of which there are never more than W.
C21_IntakeAndHandlersBounded ==
    /\ Len(queue) <= QueueFactor * NWorkers
    /\ Cardinality(Handling) <= spawned
    /\ spawned <= NWorkers
    /\ \A w \in Workers : wpc[w] # "unstarted" => w <= spawned
    /\ \A w, v \in Handling : wjob[w] = wjob[v] => w = v
    /\ \A w \in Handling : enqueued[wjob[w]] /\ handled[wjob[w]] = 1

\* The intake holds 4 x W jobs, all the W workers are in the handler, and
\* one more Process call is at its send.
C21_Witness ==
    /\ Len(queue) = QueueFactor * NWorkers
    /\ Cardinality(Handling) = NWorkers
    /\ \E c \in Callers : cpc[c] = "send" /\ ~cctx[c]
    /\ ~qctxDone

=============================================================================
